---- MODULE Spec2Model ----
(***************************************************************************)
(* Model of the S3 migration program (src/migrate.go): list a source       *)
(* bucket, download every object to a local staging directory, walk the    *)
(* staging directory and upload every file to a destination bucket, then   *)
(* remove the staging directory.                                           *)
(*                                                                         *)
(* Strings (object keys, file paths) are sequences of one-character        *)
(* strings, so that path.Join / Clean / Rel are computed, not assumed.     *)
(***************************************************************************)
EXTENDS Naturals, Integers, Sequences, FiniteSets, TLC

(***************************************************************************)
(* Bounds of the model.                                                    *)
(***************************************************************************)
\* Longest key enumerated by the key-mapping specification.
MaxKeyLen == 4
\* Largest number of objects in the source bucket.
MaxObjects == 3
\* Number of objects one ListObjects reply carries (1000 on a real service).
PageSize == 2
\* Size in bytes of a non-empty source object.
MaxSize == 2
\* Number of environment failures (network, permission, disk) injected in a run.
MaxFaults == 2

(***************************************************************************)
(* Characters and strings.                                                 *)
(***************************************************************************)
\* os.PathSeparator of the build (unix).
Separator == "/"

\* Byte value of a character, for sort.Strings in readDirNames.
Ord(c) ==
  CASE c = "." -> 46
    [] c = "/" -> 47
    [] c = "a" -> 97
    [] c = "c" -> 99
    [] c = "d" -> 100
    [] c = "s" -> 115
    [] c = "z" -> 122
    [] OTHER -> 127

\* Byte-wise string order (Go's < on strings).
RECURSIVE StrLess(_, _)
StrLess(a, b) ==
  IF b = <<>> THEN FALSE
  ELSE IF a = <<>> THEN TRUE
  ELSE IF Ord(Head(a)) # Ord(Head(b)) THEN Ord(Head(a)) < Ord(Head(b))
  ELSE StrLess(Tail(a), Tail(b))

\* strings.Split(s, Separator): the segments between separators, empty ones kept.
RECURSIVE SplitSep(_)
SplitSep(s) ==
  IF s = <<>> THEN << <<>> >>
  ELSE LET rest == SplitSep(Tail(s))
       IN  IF Head(s) = Separator
             THEN << <<>> >> \o rest
             ELSE << <<Head(s)>> \o Head(rest) >> \o Tail(rest)

\* strings.Join(segs, Separator).
RECURSIVE JoinSep(_)
JoinSep(segs) ==
  IF segs = <<>> THEN <<>>
  ELSE IF Len(segs) = 1 THEN Head(segs)
  ELSE Head(segs) \o <<Separator>> \o JoinSep(Tail(segs))

DotDot == <<".", ".">>
Dot == <<".">>

\* The element stack filepath.Clean builds: empty and "." elements dropped,
\* ".." removes the preceding non-".." element, is dropped at the root of a
\* rooted path and is kept otherwise.
RECURSIVE CleanStack(_, _, _)
CleanStack(segs, rooted, out) ==
  IF segs = <<>> THEN out
  ELSE LET e == Head(segs)
           r == Tail(segs)
       IN  IF e = <<>> \/ e = Dot THEN CleanStack(r, rooted, out)
           ELSE IF e = DotDot
             THEN IF out # <<>> /\ out[Len(out)] # DotDot
                    THEN CleanStack(r, rooted, SubSeq(out, 1, Len(out) - 1))
                  ELSE IF rooted THEN CleanStack(r, rooted, out)
                  ELSE CleanStack(r, rooted, Append(out, e))
           ELSE CleanStack(r, rooted, Append(out, e))

\* filepath.Clean.
Clean(p) ==
  IF p = <<>> THEN Dot
  ELSE LET rooted == p[1] = Separator
           st == CleanStack(SplitSep(p), rooted, <<>>)
       IN  IF rooted THEN <<Separator>> \o JoinSep(st)
           ELSE IF st = <<>> THEN Dot
           ELSE JoinSep(st)

\* filepath.Join(a, b): the non-empty elements joined by the separator, cleaned.
Join(a, b) ==
  IF a = <<>> /\ b = <<>> THEN <<>>
  ELSE IF a = <<>> THEN Clean(b)
  ELSE IF b = <<>> THEN Clean(a)
  ELSE Clean(a \o <<Separator>> \o b)

\* Index of the last separator of p, 0 if none.
RECURSIVE LastSep(_)
LastSep(p) ==
  IF p = <<>> THEN 0
  ELSE IF p[Len(p)] = Separator THEN Len(p)
  ELSE LastSep(SubSeq(p, 1, Len(p) - 1))

\* filepath.Dir: all but the last element of p, cleaned.
Dir(p) == Clean(SubSeq(p, 1, LastSep(p)))

\* The elements of a cleaned relative path ("." has none).
Elems(p) == IF p = Dot \/ p = <<>> THEN <<>> ELSE SplitSep(p)

\* Length of the common prefix of two element sequences.
RECURSIVE Common(_, _)
Common(b, t) ==
  IF b = <<>> \/ t = <<>> \/ Head(b) # Head(t) THEN 0
  ELSE 1 + Common(Tail(b), Tail(t))

\* filepath.Rel(base, targ) for relative paths: ".." for every element of
\* base past the common prefix, then the rest of targ; "." when they are
\* equal; "" (with an error the caller drops) when base would have to climb
\* through a "..".
Rel(base, targ) ==
  LET b == Elems(Clean(base))
      t == Elems(Clean(targ))
      c == Common(b, t)
      up == [i \in 1..(Len(b) - c) |-> DotDot]
      down == SubSeq(t, c + 1, Len(t))
  IN  IF b = t THEN Dot
      ELSE IF \E i \in (c + 1)..Len(b) : b[i] = DotDot THEN <<>>
      ELSE JoinSep(up \o down)

\* filepath.ToSlash: every separator replaced by "/".
ToSlash(p) == [i \in DOMAIN p |-> IF p[i] = Separator THEN "/" ELSE p[i]]

\* strings.TrimPrefix(s, "./").
TrimDotSlash(s) ==
  IF Len(s) >= 2 /\ s[1] = "." /\ s[2] = "/" THEN SubSeq(s, 3, Len(s)) ELSE s

\* config.Source.LocalDownloadPath: the staging root.
LocalDownloadPath == <<"s">>

\* downloadFiles: the local file of an object key.
ToLocalPath(key) == Join(LocalDownloadPath, key)

\* ToObjectKey with a fault: the path is not made relative to the staging root.
ToObjectKey_NoRel(path) == TrimDotSlash(ToSlash(path))

\* uploadFiles: the upload key of a walked path.
ToObjectKey(path) == TrimDotSlash(ToSlash(Rel(LocalDownloadPath, path)))

(***************************************************************************)
(* The local filesystem: a function from paths (sequences of elements,     *)
(* relative to the working directory) to directories and files.  A file's  *)
(* content is named by the object it was read from and how many of its     *)
(* bytes were written.                                                      *)
(***************************************************************************)
DirEntry == [dir |-> TRUE, src |-> <<>>, len |-> 0]
FileEntry(src, len) == [dir |-> FALSE, src |-> src, len |-> len]

\* Content that was in the staging directory before the run.
StaleSrc == <<"*">>

\* The staging root as a filesystem path.
Root == Elems(Clean(LocalDownloadPath))

\* The working directory and its ancestors always exist.
Outside(p) == p = <<>> \/ p[Len(p)] = DotDot

IsDir(f, p) == Outside(p) \/ (p \in DOMAIN f /\ f[p].dir)
IsFile(f, p) == ~Outside(p) /\ p \in DOMAIN f /\ ~f[p].dir

Prefixes(p) == {SubSeq(p, 1, i) : i \in 1..Len(p)}
Under(p, root) == Len(p) >= Len(root) /\ SubSeq(p, 1, Len(root)) = root

\* os.MkdirAll succeeds unless a component of the path is a regular file.
MkdirAllOk(f, p) == \A q \in Prefixes(p) : ~IsFile(f, q)

\* os.MkdirAll: every missing component becomes a directory.
MkdirAll(f, p) ==
  LET new == {q \in Prefixes(p) : ~Outside(q) /\ q \notin DOMAIN f}
  IN  [q \in DOMAIN f \cup new |-> IF q \in new THEN DirEntry ELSE f[q]]

\* os.Create succeeds when the parent is a directory and the path is not one.
CreateOk(f, p) ==
  /\ ~IsDir(f, p)
  /\ IsDir(f, SubSeq(p, 1, Len(p) - 1))

\* os.Create followed by io.Copy of the first n bytes of the object src:
\* the file is created or truncated, then holds n bytes.
WriteFile(f, p, src, n) ==
  [q \in DOMAIN f \cup {p} |-> IF q = p THEN FileEntry(src, n) ELSE f[q]]

\* RemoveAll with a fault: os.Remove, which removes an empty directory only.
RemoveAll_NotRecursive(f, root) ==
  [q \in {r \in DOMAIN f :
            ~(r = root /\ {c \in DOMAIN f : c # root /\ Under(c, root)} = {})} |-> f[q]]

\* os.RemoveAll: the path and everything under it are gone.
RemoveAll(f, root) ==
  [q \in {r \in DOMAIN f : ~Under(r, root)} |-> f[q]]

\* ioutil.ReadDir names of a directory, as paths.
Children(f, p) ==
  {q \in DOMAIN f : Len(q) = Len(p) + 1 /\ SubSeq(q, 1, Len(p)) = p}

\* readDirNames: the entries of one directory sorted by name.
RECURSIVE SortPaths(_)
SortPaths(S) ==
  IF S = {} THEN <<>>
  ELSE LET m == CHOOSE x \in S :
                  \A y \in S \ {x} : StrLess(x[Len(x)], y[Len(y)])
       IN  <<m>> \o SortPaths(S \ {m})

\* filepath.Walk: each path before its children, children in name order.
\* visit[p] is the walk of the tree at p; cat[i] is the walk of the first i
\* children of p.
WalkOrder(f, root) ==
  LET visit[p \in DOMAIN f] ==
        LET names == SortPaths(Children(f, p))
            cat[i \in 0..Len(names)] ==
              IF i = 0 THEN <<>> ELSE cat[i - 1] \o visit[names[i]]
        IN  <<p>> \o (IF IsDir(f, p) THEN cat[Len(names)] ELSE <<>>)
  IN  IF root \in DOMAIN f THEN visit[root] ELSE <<root>>

\* The path of a filesystem entry as a string.
PathStr(p) == IF p = <<>> THEN Dot ELSE JoinSep(p)

(***************************************************************************)
(* Inputs: the source bucket, the staging directory found at start-up, the *)
(* destination bucket.                                                     *)
(***************************************************************************)
\* Object keys of the source bucket: plain, nested, a key that is also the
\* directory of another key, and a key that is not in clean form.
SourceKeys ==
  { <<"a">>, <<"d">>, <<"d", "/", "c">>, <<".", "/", "a">> }

Sizes == {0, MaxSize}

Objects == [key : SourceKeys, size : Sizes]

RECURSIVE SeqsUpTo(_, _)
SeqsUpTo(S, n) ==
  IF n = 0 THEN { <<>> }
  ELSE LET shorter == SeqsUpTo(S, n - 1)
       IN  shorter \cup {Append(q, x) : q \in {r \in shorter : Len(r) = n - 1}, x \in S}

\* A bucket holds each key once; the sequence is the order the service lists it in.
Buckets ==
  {b \in SeqsUpTo(Objects, MaxObjects) :
     \A i, j \in 1..Len(b) : i # j => b[i].key # b[j].key}

StaleFile == FileEntry(StaleSrc, 1)

\* The staging directory before the run: absent, empty, or left over from an
\* earlier run with a file in it.
InitialFs ==
  { <<>>,
    Root :> DirEntry,
    (Root :> DirEntry) @@ (Append(Root, <<"a">>) :> StaleFile),
    (Root :> DirEntry) @@ (Append(Root, <<"z">>) :> StaleFile) }

\* The destination bucket before the run.
InitialDst ==
  (<<"a">> :> [src |-> StaleSrc, len |-> 1]) @@ (<<"q">> :> [src |-> StaleSrc, len |-> 1])

(***************************************************************************)
(* State.                                                                  *)
(***************************************************************************)
VARIABLES
  pc,        \* position in main
  exitCode,  \* -1 while running, then the status of os.Exit / return from main
  failedAt,  \* the phase whose error ended the run, "" if none
  bucket,    \* the source bucket
  dst,       \* the destination bucket: key -> content
  fs,        \* the local filesystem
  stale,     \* files of the staging directory that predate the run
  listed,    \* listObjectsOutput.Contents
  di,        \* index of the download loop
  dlLog,     \* per processed object, how its iteration ended
  walk,      \* the paths filepath.Walk visits, in order
  wi,        \* index of the walk
  upErr,     \* what ended the walk with an error, "" if nothing
  handles,   \* staging file handles open
  lists,     \* ListObjects requests issued
  gets,      \* GetObject requests issued, in order
  puts,      \* PutObject requests issued, in order
  created,   \* paths os.Create created or truncated in this run
  faults,    \* environment failures injected so far
  k,         \* key-mapping check: the key
  kpc,       \* key-mapping check: position
  lp,        \* key-mapping check: the local path of k
  rk         \* key-mapping check: the key mapped back from lp

pipeVars == <<pc, exitCode, failedAt, bucket, dst, fs, stale, listed, di, dlLog,
              walk, wi, upErr, handles, lists, gets, puts, created, faults>>
keyVars == <<k, kpc, lp, rk>>
vars == <<pipeVars, keyVars>>

KeyIdle == k = <<>> /\ kpc = "idle" /\ lp = <<>> /\ rk = <<>>

Init ==
  /\ pc = "readConfig"
  /\ exitCode = -1
  /\ failedAt = ""
  /\ bucket \in Buckets
  /\ dst = InitialDst
  /\ fs \in InitialFs
  /\ stale = {p \in DOMAIN fs : ~fs[p].dir}
  /\ listed = <<>>
  /\ di = 1
  /\ dlLog = <<>>
  /\ walk = <<>>
  /\ wi = 1
  /\ upErr = ""
  /\ handles = 0
  /\ lists = 0
  /\ gets = <<>>
  /\ puts = <<>>
  /\ created = {}
  /\ faults = 0
  /\ KeyIdle

\* An environment failure may be injected while the budget lasts.
Fault == faults < MaxFaults /\ faults' = faults + 1
NoFault == faults' = faults

\* main: print the error and os.Exit(1).
Fail(phase) == pc' = "exit" /\ exitCode' = 1 /\ failedAt' = phase

(***************************************************************************)
(* main, lines 35-43: read the configuration, create the staging directory.*)
(***************************************************************************)
ReadConfigOk ==
  /\ pc = "readConfig"
  /\ pc' = "mkdirStaging"
  /\ NoFault
  /\ UNCHANGED <<exitCode, failedAt, bucket, dst, fs, stale, listed, di, dlLog,
                 walk, wi, upErr, handles, lists, gets, puts, created, keyVars>>

ReadConfigFail ==
  /\ pc = "readConfig"
  /\ Fault
  /\ Fail("config")
  /\ UNCHANGED <<bucket, dst, fs, stale, listed, di, dlLog,
                 walk, wi, upErr, handles, lists, gets, puts, created, keyVars>>

MkStagingOk ==
  /\ pc = "mkdirStaging"
  /\ MkdirAllOk(fs, Root)
  /\ fs' = MkdirAll(fs, Root)
  /\ pc' = "list"
  /\ NoFault
  /\ UNCHANGED <<exitCode, failedAt, bucket, dst, stale, listed, di, dlLog,
                 walk, wi, upErr, handles, lists, gets, puts, created, keyVars>>

\* MkStagingFail with a fault: the error is printed and main goes on.
MkStagingFail_Continue ==
  /\ pc = "mkdirStaging"
  /\ Fault
  /\ failedAt' = "mkdir"
  /\ pc' = "list"
  /\ UNCHANGED <<exitCode, bucket, dst, fs, stale, listed, di, dlLog,
                 walk, wi, upErr, handles, lists, gets, puts, created, keyVars>>

MkStagingFail ==
  /\ pc = "mkdirStaging"
  /\ \/ ~MkdirAllOk(fs, Root) /\ NoFault
     \/ Fault
  /\ Fail("mkdir")
  /\ UNCHANGED <<bucket, dst, fs, stale, listed, di, dlLog,
                 walk, wi, upErr, handles, lists, gets, puts, created, keyVars>>

(***************************************************************************)
(* downloadFiles, lines 79-135.                                            *)
(***************************************************************************)
\* One ListObjects reply: the first page of the bucket.
FirstPage(b) == SubSeq(b, 1, IF Len(b) < PageSize THEN Len(b) ELSE PageSize)

\* ListFail with a fault: main reports the listing error and goes on to upload.
ListFail_NoExit ==
  /\ pc = "list"
  /\ Fault
  /\ lists' = lists + 1
  /\ failedAt' = "download"
  /\ pc' = "upload"
  /\ UNCHANGED <<exitCode, bucket, dst, fs, stale, listed, di, dlLog,
                 walk, wi, upErr, handles, gets, puts, created, keyVars>>

\* ListFail with a fault: the staging directory is removed before the exit.
ListFail_Cleanup ==
  /\ pc = "list"
  /\ Fault
  /\ lists' = lists + 1
  /\ fs' = RemoveAll(fs, Root)
  /\ Fail("download")
  /\ UNCHANGED <<bucket, dst, stale, listed, di, dlLog,
                 walk, wi, upErr, handles, gets, puts, created, keyVars>>

\* Lines 93-96, 45-49: the listing fails, downloadFiles returns the error.
ListFail ==
  /\ pc = "list"
  /\ Fault
  /\ lists' = lists + 1
  /\ Fail("download")
  /\ UNCHANGED <<bucket, dst, fs, stale, listed, di, dlLog,
                 walk, wi, upErr, handles, gets, puts, created, keyVars>>

\* Lines 89-98: the single ListObjects call; its Contents are iterated and
\* IsTruncated / NextMarker are not read.
ListOk ==
  /\ pc = "list"
  /\ lists' = lists + 1
  /\ listed' = FirstPage(bucket)
  /\ di' = 1
  /\ pc' = "download"
  /\ NoFault
  /\ UNCHANGED <<exitCode, failedAt, bucket, dst, fs, stale, dlLog,
                 walk, wi, upErr, handles, gets, puts, created, keyVars>>

\* Lines 99-101 for every key of the model, computed once: the local file
\* path of the key and the directory MkdirAll is called on.
KeyPaths ==
  [key \in SourceKeys |->
     [local |-> ToLocalPath(key),
      file |-> Elems(ToLocalPath(key)),
      dir |-> Elems(Dir(ToLocalPath(key)))]]

InLoop == pc = "download" /\ di <= Len(listed)
Obj == listed[di]
LocalFilePath == KeyPaths[Obj.key].local
FilePath == KeyPaths[Obj.key].file
DirPath == KeyPaths[Obj.key].dir

\* The end of one loop iteration.
NextObject(outcome) ==
  /\ dlLog' = Append(dlLog, [key |-> Obj.key, size |-> Obj.size, outcome |-> outcome])
  /\ di' = di + 1

\* DlMkdirFail with a fault: the directory creation is tried again for the
\* same object instead of moving on.
DlMkdirFail_Retry ==
  /\ InLoop
  /\ \/ ~MkdirAllOk(fs, DirPath) /\ NoFault
     \/ Fault
  /\ UNCHANGED <<pc, exitCode, failedAt, bucket, dst, fs, stale, listed, di, dlLog,
                 walk, wi, upErr, handles, lists, gets, puts, created, keyVars>>

\* Lines 101-104: MkdirAll of the parent fails; continue.
DlMkdirFail ==
  /\ InLoop
  /\ \/ ~MkdirAllOk(fs, DirPath) /\ NoFault
     \/ Fault
  /\ NextObject("mkdirErr")
  /\ UNCHANGED <<pc, exitCode, failedAt, bucket, dst, fs, stale, listed,
                 walk, wi, upErr, handles, lists, gets, puts, created, keyVars>>

\* DlGetFail with a fault: the same object is tried again.
DlGetFail_Retry ==
  /\ InLoop
  /\ MkdirAllOk(fs, DirPath)
  /\ fs' = MkdirAll(fs, DirPath)
  /\ gets' = Append(gets, Obj.key)
  /\ Fault
  /\ UNCHANGED <<pc, exitCode, failedAt, bucket, dst, stale, listed, di, dlLog,
                 walk, wi, upErr, handles, lists, puts, created, keyVars>>

\* Lines 111-115: GetObject fails; continue.
DlGetFail ==
  /\ InLoop
  /\ MkdirAllOk(fs, DirPath)
  /\ fs' = MkdirAll(fs, DirPath)
  /\ gets' = Append(gets, Obj.key)
  /\ Fault
  /\ NextObject("getErr")
  /\ UNCHANGED <<pc, exitCode, failedAt, bucket, dst, stale, listed,
                 walk, wi, upErr, handles, lists, puts, created, keyVars>>

\* Line 117 false: the object is fetched, its size is 0, nothing is written.
DlSkipEmpty ==
  /\ InLoop
  /\ MkdirAllOk(fs, DirPath)
  /\ fs' = MkdirAll(fs, DirPath)
  /\ gets' = Append(gets, Obj.key)
  /\ ~(Obj.size > 0)
  /\ NoFault
  /\ NextObject("skipped")
  /\ UNCHANGED <<pc, exitCode, failedAt, bucket, dst, stale, listed,
                 walk, wi, upErr, handles, lists, puts, created, keyVars>>

\* Lines 118-122: os.Create fails; continue.
DlCreateFail ==
  /\ InLoop
  /\ MkdirAllOk(fs, DirPath)
  /\ gets' = Append(gets, Obj.key)
  /\ Obj.size > 0
  /\ fs' = MkdirAll(fs, DirPath)
  /\ \/ ~CreateOk(fs', FilePath) /\ NoFault
     \/ Fault
  /\ NextObject("createErr")
  /\ UNCHANGED <<pc, exitCode, failedAt, bucket, dst, stale, listed,
                 walk, wi, upErr, handles, lists, puts, created, keyVars>>

\* Lines 118-129: the file is created, io.Copy fails after n bytes; continue.
\* The file stays, and its handle stays open until downloadFiles returns.
DlCopyFail ==
  /\ InLoop
  /\ MkdirAllOk(fs, DirPath)
  /\ gets' = Append(gets, Obj.key)
  /\ Obj.size > 0
  /\ CreateOk(MkdirAll(fs, DirPath), FilePath)
  /\ Fault
  /\ \E n \in 0..(Obj.size - 1) :
       fs' = WriteFile(MkdirAll(fs, DirPath), FilePath, Obj.key, n)
  /\ created' = created \cup {FilePath}
  /\ handles' = handles + 1
  /\ NextObject("copyErr")
  /\ UNCHANGED <<pc, exitCode, failedAt, bucket, dst, stale, listed,
                 walk, wi, upErr, lists, puts, keyVars>>

\* Lines 99-131: the object is written in full.
DlOk ==
  /\ InLoop
  /\ MkdirAllOk(fs, DirPath)
  /\ gets' = Append(gets, Obj.key)
  /\ Obj.size > 0
  /\ CreateOk(MkdirAll(fs, DirPath), FilePath)
  /\ fs' = WriteFile(MkdirAll(fs, DirPath), FilePath, Obj.key, Obj.size)
  /\ created' = created \cup {FilePath}
  /\ handles' = handles + 1
  /\ NoFault
  /\ NextObject("ok")
  /\ UNCHANGED <<pc, exitCode, failedAt, bucket, dst, stale, listed,
                 walk, wi, upErr, lists, puts, keyVars>>

\* DownloadReturn with a fault: the function returns from inside the loop.
DownloadReturn_Early ==
  /\ pc = "download"
  /\ handles' = 0
  /\ pc' = "upload"
  /\ NoFault
  /\ UNCHANGED <<exitCode, failedAt, bucket, dst, fs, stale, listed, di, dlLog,
                 walk, wi, upErr, lists, gets, puts, created, keyVars>>

\* Line 134, 45-51: the loop is over, the deferred Closes run, nil is returned.
DownloadReturn ==
  /\ pc = "download"
  /\ di > Len(listed)
  /\ handles' = 0
  /\ pc' = "upload"
  /\ NoFault
  /\ UNCHANGED <<exitCode, failedAt, bucket, dst, fs, stale, listed, di, dlLog,
                 walk, wi, upErr, lists, gets, puts, created, keyVars>>

(***************************************************************************)
(* uploadFiles, lines 137-184.                                             *)
(***************************************************************************)
\* Lines 138-147: filepath.Walk starts at the staging root.
WalkStart ==
  /\ pc = "upload"
  /\ walk' = WalkOrder(fs, Root)
  /\ wi' = 1
  /\ pc' = "walk"
  /\ NoFault
  /\ UNCHANGED <<exitCode, failedAt, bucket, dst, fs, stale, listed, di, dlLog,
                 upErr, handles, lists, gets, puts, created, keyVars>>

\* Every path the staging tree of the model can hold.
StagingPaths ==
  UNION {Prefixes(Elems(ToLocalPath(key))) : key \in SourceKeys}
    \cup UNION {DOMAIN f : f \in InitialFs \ {<<>>}}

\* Lines 162-165 for every such path, computed once.
UploadKeys == [p \in StagingPaths |-> ToObjectKey(PathStr(p))]

InWalk == pc = "walk" /\ wi <= Len(walk)
Path == walk[wi]
UploadKey == UploadKeys[Path]
Body == [src |-> fs[Path].src, len |-> fs[Path].len]

\* The walk function returned an error: Walk stops, uploadFiles returns it,
\* main exits 1 (lines 183, 51-55).
Abort(kind) ==
  /\ upErr' = kind
  /\ Fail("upload")

\* Lines 148-150: Walk could not stat or read the entry.
WalkErr ==
  /\ InWalk
  /\ Fault
  /\ Abort("walk")
  /\ UNCHANGED <<bucket, dst, fs, stale, listed, di, dlLog,
                 walk, wi, handles, lists, gets, puts, created, keyVars>>

\* Lines 152-154: a directory is passed over.
WalkDir ==
  /\ InWalk
  /\ IsDir(fs, Path)
  /\ wi' = wi + 1
  /\ NoFault
  /\ UNCHANGED <<pc, exitCode, failedAt, bucket, dst, fs, stale, listed, di, dlLog,
                 walk, upErr, handles, lists, gets, puts, created, keyVars>>

\* Lines 156-159: os.Open fails.
UpOpenFail ==
  /\ InWalk
  /\ ~IsDir(fs, Path)
  /\ Fault
  /\ Abort("open")
  /\ UNCHANGED <<bucket, dst, fs, stale, listed, di, dlLog,
                 walk, wi, handles, lists, gets, puts, created, keyVars>>

\* Line 173 false: an empty file is opened and closed, nothing is put.
UpSkipEmpty ==
  /\ InWalk
  /\ ~IsDir(fs, Path)
  /\ ~(fs[Path].len > 0)
  /\ wi' = wi + 1
  /\ NoFault
  /\ UNCHANGED <<pc, exitCode, failedAt, bucket, dst, fs, stale, listed, di, dlLog,
                 walk, upErr, handles, lists, gets, puts, created, keyVars>>

\* UpPutFail with a fault: the error is logged and the walk goes on, as the
\* download loop does.
UpPutFail_Continue ==
  /\ InWalk
  /\ ~IsDir(fs, Path)
  /\ fs[Path].len > 0
  /\ puts' = Append(puts, [key |-> UploadKey, body |-> Body, path |-> Path, ok |-> FALSE])
  /\ Fault
  /\ upErr' = "put"
  /\ wi' = wi + 1
  /\ UNCHANGED <<pc, exitCode, failedAt, bucket, dst, fs, stale, listed, di, dlLog,
                 walk, handles, lists, gets, created, keyVars>>

\* Lines 173-177: PutObject fails.
UpPutFail ==
  /\ InWalk
  /\ ~IsDir(fs, Path)
  /\ fs[Path].len > 0
  /\ puts' = Append(puts, [key |-> UploadKey, body |-> Body, path |-> Path, ok |-> FALSE])
  /\ Fault
  /\ Abort("put")
  /\ UNCHANGED <<bucket, dst, fs, stale, listed, di, dlLog,
                 walk, wi, handles, lists, gets, created, keyVars>>

\* UpPutOk with a fault: the put replaces the content of the whole bucket.
UpPutOk_Replace ==
  /\ InWalk
  /\ ~IsDir(fs, Path)
  /\ fs[Path].len > 0
  /\ puts' = Append(puts, [key |-> UploadKey, body |-> Body, path |-> Path, ok |-> TRUE])
  /\ dst' = [q \in {UploadKey} |-> Body]
  /\ wi' = wi + 1
  /\ NoFault
  /\ UNCHANGED <<pc, exitCode, failedAt, bucket, fs, stale, listed, di, dlLog,
                 walk, upErr, handles, lists, gets, created, keyVars>>

\* Lines 156-180: the file is put under its upload key.
UpPutOk ==
  /\ InWalk
  /\ ~IsDir(fs, Path)
  /\ fs[Path].len > 0
  /\ puts' = Append(puts, [key |-> UploadKey, body |-> Body, path |-> Path, ok |-> TRUE])
  /\ dst' = [q \in DOMAIN dst \cup {UploadKey} |-> IF q = UploadKey THEN Body ELSE dst[q]]
  /\ wi' = wi + 1
  /\ NoFault
  /\ UNCHANGED <<pc, exitCode, failedAt, bucket, fs, stale, listed, di, dlLog,
                 walk, upErr, handles, lists, gets, created, keyVars>>

\* Lines 181-183, 51-57: the walk is over, nil is returned.
UploadReturn ==
  /\ pc = "walk"
  /\ wi > Len(walk)
  /\ pc' = "remove"
  /\ NoFault
  /\ UNCHANGED <<exitCode, failedAt, bucket, dst, fs, stale, listed, di, dlLog,
                 walk, wi, upErr, handles, lists, gets, puts, created, keyVars>>

(***************************************************************************)
(* main, lines 57-64: remove the staging directory.                        *)
(***************************************************************************)
RemoveOk ==
  /\ pc = "remove"
  /\ fs' = RemoveAll(fs, Root)
  /\ pc' = "exit"
  /\ exitCode' = 0
  /\ NoFault
  /\ UNCHANGED <<failedAt, bucket, dst, stale, listed, di, dlLog,
                 walk, wi, upErr, handles, lists, gets, puts, created, keyVars>>

\* RemoveFail with a fault: the error is printed and main returns normally.
RemoveFail_Ignored ==
  /\ pc = "remove"
  /\ Fault
  /\ pc' = "exit"
  /\ exitCode' = 0
  /\ failedAt' = "cleanup"
  /\ UNCHANGED <<bucket, dst, fs, stale, listed, di, dlLog,
                 walk, wi, upErr, handles, lists, gets, puts, created, keyVars>>

\* os.RemoveAll fails: what it had not yet removed stays.
RemoveFail ==
  /\ pc = "remove"
  /\ Fault
  /\ Fail("cleanup")
  /\ UNCHANGED <<bucket, dst, fs, stale, listed, di, dlLog,
                 walk, wi, upErr, handles, lists, gets, puts, created, keyVars>>

Next ==
  \/ ReadConfigOk
  \/ ReadConfigFail
  \/ MkStagingOk
  \/ MkStagingFail
  \/ ListOk
  \/ ListFail
  \/ DlMkdirFail
  \/ DlGetFail
  \/ DlSkipEmpty
  \/ DlCreateFail
  \/ DlCopyFail
  \/ DlOk
  \/ DownloadReturn
  \/ WalkStart
  \/ WalkErr
  \/ WalkDir
  \/ UpOpenFail
  \/ UpSkipEmpty
  \/ UpPutFail
  \/ UpPutOk
  \/ UploadReturn
  \/ RemoveOk
  \/ RemoveFail

Spec == Init /\ [][Next]_vars

\* The pipeline state of the design: Init, StagingCreated, Downloaded,
\* Uploaded, CleanedUp, Failed.
PipelineState ==
  IF exitCode = 1 THEN "Failed"
  ELSE IF exitCode = 0 THEN "CleanedUp"
  ELSE IF pc \in {"readConfig", "mkdirStaging"} THEN "Init"
  ELSE IF pc \in {"list", "download"} THEN "StagingCreated"
  ELSE IF pc \in {"upload", "walk"} THEN "Downloaded"
  ELSE "Uploaded"

(***************************************************************************)
(* The key mapping on its own: a key is mapped to its local path           *)
(* (downloadFiles, line 99) and the path back to an upload key            *)
(* (uploadFiles, lines 162-165).                                           *)
(***************************************************************************)
KeyAlphabet == {"a", "/", "."}

RECURSIVE StringsOfLen(_)
StringsOfLen(n) ==
  IF n = 0 THEN { <<>> }
  ELSE {Append(w, c) : w \in StringsOfLen(n - 1), c \in KeyAlphabet}

\* Every key of 1..MaxKeyLen characters; all use "/" as their only separator.
AllKeys == UNION {StringsOfLen(n) : n \in 1..MaxKeyLen}

PipelineOff ==
  /\ pc = "off"
  /\ exitCode = -1
  /\ failedAt = ""
  /\ bucket = <<>>
  /\ dst = InitialDst
  /\ fs = <<>>
  /\ stale = {}
  /\ listed = <<>>
  /\ di = 1
  /\ dlLog = <<>>
  /\ walk = <<>>
  /\ wi = 1
  /\ upErr = ""
  /\ handles = 0
  /\ lists = 0
  /\ gets = <<>>
  /\ puts = <<>>
  /\ created = {}
  /\ faults = 0

InitKey ==
  /\ PipelineOff
  /\ k \in AllKeys
  /\ kpc = "key"
  /\ lp = <<>>
  /\ rk = <<>>

\* Line 99: localFilePath := filepath.Join(localPath, *object.Key).
MapToLocal ==
  /\ kpc = "key"
  /\ lp' = ToLocalPath(k)
  /\ kpc' = "local"
  /\ UNCHANGED <<k, rk, pipeVars>>

\* Lines 162-165: Rel, ToSlash, TrimPrefix.
MapToKey ==
  /\ kpc = "local"
  /\ rk' = ToObjectKey(lp)
  /\ kpc' = "back"
  /\ UNCHANGED <<k, lp, pipeVars>>

NextKey ==
  \/ MapToLocal
  \/ MapToKey

SpecKey == InitKey /\ [][NextKey]_vars

(***************************************************************************)
(* Vocabulary of the properties.                                           *)
(***************************************************************************)
\* The filesystem path of the local file of a key.
FilePathOf(key) == Elems(ToLocalPath(key))

\* Regular files in the staging tree.
StagingFiles == {p \in DOMAIN fs : Under(p, Root) /\ ~fs[p].dir}

\* The staging root or anything under it.
StagingEntries == {p \in DOMAIN fs : Under(p, Root)}

ListedIdx == 1..Len(listed)
PutIdx == 1..Len(puts)
PutKeys == {puts[i].key : i \in PutIdx}

\* Loop iterations that ended in an error, and those that wrote their file.
FailedIdx == {i \in 1..Len(dlLog) : dlLog[i].outcome \notin {"ok", "skipped"}}
OkIdx == {i \in 1..Len(dlLog) : dlLog[i].outcome = "ok"}

\* The download loop has run to its end and uploadFiles is about to be called.
DownloadDone == pc = "upload"

\* The path of a staged file relative to the staging root, "/" between elements.
RECURSIVE SlashJoin(_)
SlashJoin(es) ==
  IF Len(es) = 1 THEN es[1] ELSE es[1] \o <<"/">> \o SlashJoin(Tail(es))

RelKey(p) == SlashJoin(SubSeq(p, Len(Root) + 1, Len(p)))

\* The regular files of the walk, in walk order.
WalkFiles == SelectSeq(walk, LAMBDA p : ~IsDir(fs, p))

\* How many regular files the walk has reached, the current one included.
FilesReached ==
  LET upto == IF wi < Len(walk) THEN wi ELSE Len(walk)
  IN  Len(SelectSeq(SubSeq(walk, 1, upto), LAMBDA p : ~IsDir(fs, p)))

PutPaths == [i \in PutIdx |-> puts[i].path]

(***************************************************************************)
(* Properties.                                                             *)
(***************************************************************************)
\* A run in which nothing failed: no injected failure, no loop iteration
\* ended in an error, the process exited 0.
FullSuccess == exitCode = 0 /\ faults = 0 /\ FailedIdx = {}

\* C1: in a run where every step succeeds, the keys put are exactly the
\* listed keys of size > 0, each put once with the content fetched for it,
\* no key of size 0 is put, the staging directory is gone and the exit
\* status is 0.
FullSuccessMigratesExactly ==
  FullSuccess =>
    /\ PutKeys = {listed[i].key : i \in {j \in ListedIdx : listed[j].size > 0}}
    /\ \A i \in ListedIdx :
         listed[i].size > 0 =>
           /\ Cardinality({j \in PutIdx : puts[j].key = listed[i].key}) = 1
           /\ \A j \in PutIdx :
                puts[j].key = listed[i].key =>
                  puts[j].body = [src |-> listed[i].key, len |-> listed[i].size]
    /\ \A i \in ListedIdx : listed[i].size = 0 => listed[i].key \notin PutKeys
    /\ StagingEntries = {}

\* The listing call has returned without error.
ListingReturned == lists > 0 /\ failedAt # "download"

\* C2: the descriptors handed to the download loop are every object of the
\* bucket, each once, also when the bucket is larger than one listing page.
PaginationComplete ==
  ListingReturned =>
    /\ Len(listed) = Len(bucket)
    /\ {listed[i] : i \in ListedIdx} = {bucket[i] : i \in 1..Len(bucket)}
    /\ \A i, j \in ListedIdx : i # j => listed[i].key # listed[j].key

\* C3: with N listed objects of size > 0 of which exactly one fails (in
\* directory creation, fetch or local write), the staging tree at the end of
\* the download phase holds exactly the files of the other N-1 objects and
\* none for the failed one, every object was processed, and the upload phase
\* is next.  Stated for a staging directory that held no file before the run.
BestEffortDownload ==
  ( /\ DownloadDone
    /\ stale = {}
    /\ \A i \in ListedIdx : listed[i].size > 0
    /\ Cardinality(FailedIdx) = 1 )
  =>
    /\ Len(dlLog) = Len(listed)
    /\ StagingFiles = {FilePathOf(dlLog[i].key) : i \in OkIdx}
    /\ \A i \in FailedIdx : FilePathOf(dlLog[i].key) \notin StagingFiles

\* C4: when the download phase completes, the files of the staging tree are
\* exactly the listed objects of size > 0 whose directory creation, fetch and
\* write all succeeded, each with its full content; a copy that fails
\* part-way leaves no file.  Stated for a staging directory that held no
\* file before the run.
DownloadGuarantee ==
  (DownloadDone /\ stale = {}) =>
    /\ StagingFiles = {FilePathOf(dlLog[i].key) : i \in OkIdx}
    /\ \A p \in StagingFiles : fs[p].len > 0

\* The walk ended on an error of os.Open or PutObject.
UploadAborted == upErr \in {"open", "put"}

AllStagedNonEmpty == \A p \in StagingFiles : fs[p].len > 0

\* What follows an aborted walk in main: Failed, exit status 1.
FailedExit ==
  /\ pc = "exit"
  /\ exitCode = 1
  /\ failedAt = "upload"
  /\ PipelineState = "Failed"

\* C5 as stated: if the put or the open of the J-th file of the walk fails,
\* exactly the first J files have had a put attempted, none after, and the
\* run ends in Failed with a non-zero exit.
AbortAfterExactlyJPuts ==
  (UploadAborted /\ AllStagedNonEmpty) =>
    /\ PutPaths = SubSeq(WalkFiles, 1, FilesReached)
    /\ FailedExit

\* C5 amended: if the put of the J-th file fails, exactly the first J files
\* have had a put attempted (the first J-1 succeeded); if the open of the
\* J-th file fails, exactly the first J-1 files have had a put attempted (all
\* succeeded); in both cases no later file is attempted and the run ends in
\* Failed with a non-zero exit.
AbortOnUploadFailure ==
  (UploadAborted /\ AllStagedNonEmpty) =>
    LET attempted == IF upErr = "put" THEN FilesReached ELSE FilesReached - 1
    IN  /\ PutPaths = SubSeq(WalkFiles, 1, attempted)
        /\ \A i \in PutIdx : puts[i].ok <=> ~(upErr = "put" /\ i = attempted)
        /\ FailedExit

\* C5 witness: three non-empty files staged, the put of the second fails.
AbortWitness ==
  /\ upErr = "put"
  /\ AllStagedNonEmpty
  /\ Len(WalkFiles) = 3
  /\ Len(puts) = 2
  /\ FilesReached = 2

\* C6: an object listed with size 0 never has a file created for its key in
\* staging and no put is issued with its key; no put carries a file of size 0.
SkipOnEmpty ==
  /\ \A i \in ListedIdx :
       listed[i].size = 0 =>
         /\ FilePathOf(listed[i].key) \notin created
         /\ listed[i].key \notin PutKeys
  /\ \A j \in PutIdx : puts[j].body.len > 0

\* C7: when the pipeline ends in CleanedUp (exit 0), neither the staging
\* directory nor anything under it exists, also when objects failed to
\* download.
CleanupOnSuccess ==
  PipelineState = "CleanedUp" => StagingEntries = {}

\* C7 witness: exit 0 after a run that staged files in a subdirectory and in
\* which one object failed to download.
CleanupWitness ==
  /\ PipelineState = "CleanedUp"
  /\ FailedIdx # {}
  /\ \E p \in created : Len(p) > Len(Root) + 1

\* C8: a key maps to its local path and back to itself, and no other key
\* maps to the same local path.
KeyRoundTrip ==
  /\ kpc = "back" => rk = k
  /\ kpc = "local" => \A k2 \in AllKeys : k2 # k => ToLocalPath(k2) # lp

\* The walk has completed without error and the staging tree is still there.
WalkCompleted == pc = "remove"

\* C9: when the walk completes without error, every regular file of size > 0
\* in the staging tree has been put exactly once, successfully, with its
\* content, under its path relative to the staging root with "/" separators
\* and no leading "./", the destination holds it under that key, and neither
\* a directory nor a file of size 0 has been put.
UploaderContract ==
  WalkCompleted =>
    /\ \A p \in StagingFiles :
         fs[p].len > 0 =>
           /\ Cardinality({i \in PutIdx : puts[i].path = p}) = 1
           /\ \A i \in PutIdx :
                puts[i].path = p =>
                  /\ puts[i].key = RelKey(p)
                  /\ TrimDotSlash(puts[i].key) = puts[i].key
                  /\ puts[i].ok
                  /\ puts[i].body = [src |-> fs[p].src, len |-> fs[p].len]
           /\ RelKey(p) \in DOMAIN dst
           /\ dst[RelKey(p)] = [src |-> fs[p].src, len |-> fs[p].len]
    /\ \A i \in PutIdx :
         /\ puts[i].path \in StagingFiles
         /\ fs[puts[i].path].len > 0

\* C9 witness: the walk completed over a tree with a non-empty file in a
\* subdirectory, an empty file, and two files put.
UploaderWitness ==
  /\ WalkCompleted
  /\ \E p \in StagingFiles : Len(p) > Len(Root) + 1 /\ fs[p].len > 0
  /\ \E p \in StagingFiles : fs[p].len = 0
  /\ Len(puts) = 2

\* C10: if the listing call fails, no get is issued, no file is written to
\* staging, no put is issued, and the process ends in Failed with a non-zero
\* exit.
ListingFailureIsFatal ==
  failedAt = "download" =>
    /\ gets = <<>>
    /\ created = {}
    /\ StagingFiles = stale
    /\ puts = <<>>
    /\ pc = "exit"
    /\ exitCode = 1
    /\ PipelineState = "Failed"

\* C10 witness: the listing of a non-empty bucket failed while the staging
\* directory held a file that an upload would have put.
ListingFailureWitness ==
  /\ failedAt = "download"
  /\ lists = 1
  /\ Len(bucket) > 0
  /\ stale # {}

\* The phases whose error main reports before os.Exit(1).
FatalPhases == {"config", "mkdir", "download", "upload", "cleanup"}

\* C11: the exit status is 0 exactly when the run ended without a reported
\* phase error, and then the walk was completed and the staging directory
\* removed; an error of the config read, the staging creation, the listing,
\* the upload or the removal gives exit status 1; the errors of the
\* download loop are the only ones a run that exits 0 can have had, and a
\* non-zero exit for the download phase comes from the listing alone.
ExitContract ==
  /\ pc = "exit" => (exitCode = 0 <=> failedAt = "")
  /\ pc # "exit" => exitCode = -1
  /\ failedAt # "" => (pc = "exit" /\ exitCode = 1 /\ failedAt \in FatalPhases)
  /\ exitCode = 0 =>
       /\ pc = "exit"
       /\ upErr = ""
       /\ wi > Len(walk)
       /\ StagingEntries = {}
       /\ faults <= Cardinality(FailedIdx)
  /\ (exitCode = 1 /\ failedAt = "download") => (dlLog = <<>> /\ gets = <<>>)
  /\ upErr # "" => (exitCode = 1 /\ failedAt = "upload")

\* C11 witness: exit status 0 after two objects failed to download.
ExitWitness ==
  /\ exitCode = 0
  /\ faults = 2
  /\ Cardinality(FailedIdx) = 2

\* The order of the pipeline states.
PipelineSucc ==
  { <<"Init", "StagingCreated">>, <<"StagingCreated", "Downloaded">>,
    <<"Downloaded", "Uploaded">>, <<"Uploaded", "CleanedUp">> }

\* One step of the pipeline: the state stays, advances to its successor, or
\* a running state fails; each kind of operation belongs to one state; a
\* step taken in Failed performs nothing.
PipelineStep ==
  /\ \/ PipelineState' = PipelineState
     \/ <<PipelineState, PipelineState'>> \in PipelineSucc
     \/ PipelineState \notin {"CleanedUp", "Failed"} /\ PipelineState' = "Failed"
  /\ (lists' # lists \/ gets' # gets) => PipelineState = "StagingCreated"
  /\ puts' # puts => PipelineState = "Downloaded"
  /\ (Root \in DOMAIN fs /\ Root \notin DOMAIN fs') => PipelineState = "Uploaded"
  /\ PipelineState = "Failed" =>
       /\ PipelineState' = "Failed"
       /\ UNCHANGED <<lists, gets, puts, fs, dst>>

\* A failed config read or staging creation is followed by no network activity.
NoNetworkAfterEarlyFailure ==
  failedAt \in {"config", "mkdir"} =>
    /\ PipelineState = "Failed"
    /\ lists = 0
    /\ gets = <<>>
    /\ puts = <<>>
    /\ dst = InitialDst

\* C12: the pipeline state advances only along Init, StagingCreated,
\* Downloaded, Uploaded, CleanedUp, without skipping or revisiting; Failed is
\* terminal and no list, get, put, directory creation or removal follows it;
\* a failure of the config read or of the staging creation is followed by no
\* network activity.
PipelineOrder ==
  /\ []NoNetworkAfterEarlyFailure
  /\ [][PipelineStep]_vars

\* C12 witness: the staging creation failed with objects waiting in the bucket.
PipelineOrderWitness ==
  /\ PipelineState = "Failed"
  /\ failedAt = "mkdir"
  /\ Len(bucket) > 0

\* Once a put has been issued the download phase is over: every listed
\* object has been processed (fetched, skipped or failed).
DownloadBeforeUpload ==
  puts # <<>> =>
    /\ lists = 1
    /\ Len(dlLog) = Len(listed)
    /\ di > Len(listed)

\* After the first put the source is not read and staging gains no file.
NoDownloadAfterPut ==
  puts # <<>> =>
    /\ UNCHANGED <<lists, gets, created>>
    /\ StagingFiles' \subseteq StagingFiles

\* C13: no put is issued before the download loop has processed every
\* listed object; after the first put no list or get is issued and no new
\* file is written to staging.
StrictPhaseOrder ==
  /\ []DownloadBeforeUpload
  /\ [][NoDownloadAfterPut]_vars

\* C13 witness: a put has been issued after two objects were fetched.
StrictPhaseOrderWitness ==
  /\ Len(puts) >= 1
  /\ Len(listed) = 2
  /\ Len(gets) = 2

\* C14: when the run fails on a listing error or an upload error, the
\* removal is not executed: at exit the staging directory exists, and so
\* does every file downloaded into it and every file it held before.
NoCleanupOnFatalFailure ==
  failedAt \in {"download", "upload"} =>
    /\ pc = "exit"
    /\ Root \in DOMAIN fs
    /\ fs[Root].dir
    /\ \A p \in created \cup stale : p \in DOMAIN fs /\ ~fs[p].dir

\* C14 witness: the upload failed after two files had been downloaded.
NoCleanupWitness ==
  /\ failedAt = "upload"
  /\ Cardinality(created) = 2

\* C15: a staging file handle opened for one object or file is released
\* before the next item is processed, so no handle is open between items and
\* never more than one is open, however many objects are listed.
ScopedHandleRelease ==
  /\ handles <= 1
  /\ pc \in {"download", "walk"} => handles = 0

\* C16: the listing is requested at most once, at most one get is issued
\* per listed object and at most one put per staged file, whether the
\* request succeeded or failed.
NoRetry ==
  /\ lists <= 1
  /\ Len(gets) <= Len(dlLog)
  /\ \A i \in ListedIdx :
       Cardinality({j \in 1..Len(gets) : gets[j] = listed[i].key}) <= 1
  /\ \A j \in 1..Len(gets) : \E i \in ListedIdx : listed[i].key = gets[j]
  /\ \A i, j \in PutIdx : i # j => puts[i].path # puts[j].path
  /\ \A i \in PutIdx : \E n \in 1..Len(walk) : walk[n] = puts[i].path

\* C16 witness: a get failed and a put failed, and the run is over.
NoRetryWitness ==
  /\ pc = "exit"
  /\ \E i \in 1..Len(dlLog) : dlLog[i].outcome = "getErr"
  /\ upErr = "put"

\* The file p has had a successful put of its content.
PutDone(p) ==
  \E i \in PutIdx :
    /\ puts[i].path = p
    /\ puts[i].ok
    /\ puts[i].body = [src |-> fs[p].src, len |-> fs[p].len]

\* A step that removes the staging directory, or any non-empty file under
\* it, finds every non-empty staged file already put successfully.
RemovalStep ==
  /\ (Root \in DOMAIN fs /\ Root \notin DOMAIN fs') =>
       \A p \in StagingFiles : fs[p].len > 0 => PutDone(p)
  /\ \A p \in StagingFiles :
       (fs[p].len > 0 /\ p \notin DOMAIN fs') => PutDone(p)

\* C17: the staging directory is removed only after every non-empty regular
\* file in it has had a successful put; no run deletes a staged non-empty
\* file whose upload was not attempted or failed.
RemovalOnlyAfterUpload == [][RemovalStep]_vars

\* C17 witness: the staging directory has been removed after two files were put.
RemovalWitness ==
  /\ exitCode = 0
  /\ Root \notin DOMAIN fs
  /\ Len(puts) = 2

\* C18: in every run, also with download or upload failures and with a
\* staging directory that held files before the run, every key put is the
\* key of an object listed with size > 0 and fetched in this run.
OnlyFetchedObjectsUploaded ==
  \A i \in PutIdx :
    \E j \in ListedIdx :
      /\ listed[j].key = puts[i].key
      /\ listed[j].size > 0
      /\ \E g \in 1..Len(gets) : gets[g] = listed[j].key

\* The puts that succeeded, and the last of them for a key.
OkPuts == {i \in PutIdx : puts[i].ok}
LastOkPut(key) ==
  CHOOSE i \in OkPuts :
    puts[i].key = key /\ \A j \in OkPuts : puts[j].key = key => j <= i

\* The destination holds what it held before the run, except that every key
\* put successfully holds the content of its last put.
DestinationFrame ==
  /\ DOMAIN dst = DOMAIN InitialDst \cup {puts[i].key : i \in OkPuts}
  /\ \A key \in DOMAIN dst :
       IF \E i \in OkPuts : puts[i].key = key
         THEN dst[key] = puts[LastOkPut(key)].body
         ELSE dst[key] = InitialDst[key]

\* A step leaves the source bucket as it is, deletes nothing at the
\* destination, and changes the destination only by a put.
FrameStep ==
  /\ bucket' = bucket
  /\ DOMAIN dst \subseteq DOMAIN dst'
  /\ dst' # dst => Len(puts') = Len(puts) + 1

\* C19: the run only lists and gets on the source and only puts on the
\* destination: the source bucket is unchanged, a destination object whose
\* key is not put is left as it was and none is deleted, a destination
\* object whose key is put is overwritten.
SourceAndDestinationFrame ==
  /\ []DestinationFrame
  /\ [][FrameStep]_vars

\* C19 witness: the object "a" of the destination was overwritten, "q" was
\* left alone and a third key was added.
FrameWitness ==
  /\ dst[<<"a">>] # InitialDst[<<"a">>]
  /\ dst[<<"q">>] = InitialDst[<<"q">>]
  /\ Cardinality(DOMAIN dst) = 3

\* The program is sequential and every storage and filesystem call returns:
\* while a step of main is possible, one is taken.
SpecFair == Init /\ [][Next]_vars /\ WF_vars(Next)

\* main has ended, in CleanedUp or in Failed.
Terminated ==
  /\ pc = "exit"
  /\ exitCode \in {0, 1}
  /\ PipelineState \in {"CleanedUp", "Failed"}

\* C20: given that every call returns and the listing and the staging tree
\* are finite, every run reaches a terminal state, CleanedUp or Failed, and
\* stays in it; download failures do not keep it in the download phase.
Termination == <>[]Terminated

\* C20 witness: the run ended although every listed object failed to download.
TerminationWitness ==
  /\ Terminated
  /\ Len(listed) = 2
  /\ FailedIdx = {1, 2}

====
